---- MODULE Spec2Model ----
(***************************************************************************)
(* Smile-activated robot controller (src/smile_robot.py).                  *)
(*                                                                         *)
(* RobotController: the engine state (connected, is_moving,                *)
(* current_action), the connected servos and the motions that run on       *)
(* threads.  SmileRobotServer: the asyncio message handlers, the client    *)
(* set and the stats counters.  One event-loop handler runs at a time;     *)
(* the threads spawned by trigger_robot_action and play_sequence           *)
(* interleave with the handlers and with each other statement by           *)
(* statement.                                                              *)
(***************************************************************************)
EXTENDS Integers, Sequences, FiniteSets, TLC

VARIABLES
    connected,       \* RobotController.connected
    is_moving,       \* RobotController.is_moving
    current_action,  \* RobotController.current_action (None is "none")
    servos,          \* keys of RobotController.servos
    stored,          \* sequence names whose file exists under poses/
    slots,           \* the thread slots in use (a bound of the model)
    peers,           \* the peers that may connect (a bound of the model)
    quota,           \* the smile events handled at most (a bound of the model)
    names,           \* the action names the peers send (a bound of the model)
    hist,            \* history: emergency_stop was called; motions that claimed
    tasks,           \* the threads: run_action, then playback or simple_*
    estop,           \* the event loop inside RobotController.emergency_stop
    clients,         \* SmileRobotServer.clients
    conn,            \* each connection: idle, open, closing, leaked
    total_smiles,    \* stats['total_smiles']
    total_movements, \* stats['total_movements']
    serving,         \* the websocket server is up (before cleanup)
    ev,              \* the operation this step performed, with its inputs
    sent,            \* what this step sent to each connection
    bus              \* the actuator commands this step issued

vars == <<connected, is_moving, current_action, servos, stored, slots, peers, quota,
          names, hist, tasks, estop,
          clients, conn, total_smiles, total_movements, serving, ev, sent, bus>>

engine == <<connected, is_moving, current_action>>
config == <<servos, stored, slots, peers, quota, names>>
stats == <<total_smiles, total_movements>>

----------------------------------------------------------------------------
(* Bounds of the model *)

MaxTasks == 2
MaxObs == 2
MaxServo == 2
MaxSmiles == 2

Tasks == 1..MaxTasks
Obs == 1..MaxObs

----------------------------------------------------------------------------
(* Configuration: src/config.py and the constants of src/smile_robot.py *)

CENTER_ANGLE == 120
REVERSED == {3, 4, 7, 8, 1, 6}
ALL_SERVOS == 1..10

None == "none"
BuiltIn == {"wave", "nod", "dance"}

\* The servo ids the model connects: the first MaxServo of ALL_SERVOS.
ServoIds == {s \in ALL_SERVOS : s <= MaxServo}

\* self.servos is a dict filled in ascending id order (connect loops over
\* ALL_SERVOS): iteration visits the connected ids in ascending order.
RECURSIVE SortedSeq(_)
SortedSeq(S) ==
    IF S = {} THEN <<>>
    ELSE LET m == CHOOSE x \in S : \A y \in S : x <= y
         IN <<m>> \o SortedSeq(S \ {m})

ServoOrder == SortedSeq(servos)

----------------------------------------------------------------------------
(* The motion programs *)

\* The records of a sequence file under poses/ (the same sample content for
\* every stored name): unordered, with a gap in the frame numbers, for a
\* reversed servo (1) and a servo that is not reversed (2).
CsvRows ==
    << [frame |-> 5, servo_id |-> 1, angle |-> 140],
       [frame |-> 0, servo_id |-> 1, angle |-> 100],
       [frame |-> 0, servo_id |-> 2, angle |-> 90] >>

\* angle = 240 - angle for a servo in REVERSED
Transform(sid, angle) == IF sid \in REVERSED THEN 240 - angle ELSE angle

\* frames[frame][sid] = angle on a dict that keeps insertion order
PutAngle(frame, sid, angle) ==
    IF \E k \in 1..Len(frame) : frame[k].sid = sid
    THEN [k \in 1..Len(frame) |->
            IF frame[k].sid = sid THEN [sid |-> sid, angle |-> angle]
            ELSE frame[k]]
    ELSE Append(frame, [sid |-> sid, angle |-> angle])

\* the csv loop of _play_sequence_thread: frames, a dict of dicts
RECURSIVE LoadFrames(_, _)
LoadFrames(rows, frames) ==
    IF rows = <<>> THEN frames
    ELSE LET r == Head(rows)
             a == Transform(r.servo_id, r.angle)
             cur == IF r.frame \in DOMAIN frames THEN frames[r.frame] ELSE <<>>
         IN LoadFrames(Tail(rows),
                [f \in (DOMAIN frames) \cup {r.frame} |->
                    IF f = r.frame THEN PutAngle(cur, r.servo_id, a)
                    ELSE frames[f]])

\* the moves of the frame loop, in the order the loop reaches them:
\* sorted(frames.keys()), then each frame's items
RECURSIVE FrameMoves(_, _)
FrameMoves(frames, order) ==
    IF order = <<>> THEN <<>>
    ELSE frames[Head(order)] \o FrameMoves(frames, Tail(order))

InServos(mv) == mv.sid \in servos

\* the frames loaded from the file, and the moves of the whole frame loop
Frames == LoadFrames(CsvRows, <<>>)

\* a frame loop over frames.keys() as inserted, without sorted()
FrameLoopAsInserted == FrameMoves(Frames, <<CsvRows[1].frame, CsvRows[2].frame>>)

FrameLoop == FrameMoves(Frames, SortedSeq(DOMAIN Frames))

\* the moves a playback issues: "if sid in self.servos"
PlayMoves == SelectSeq(FrameLoop, InServos)

Mv(sid, angle) == [sid |-> sid, angle |-> angle]

WaveMoves ==
    << Mv(1, 180), Mv(2, 90),
       Mv(2, 60), Mv(2, 120), Mv(2, 60), Mv(2, 120), Mv(2, 60), Mv(2, 120) >>

NodMoves ==
    << Mv(3, 100), Mv(3, 140), Mv(3, 100), Mv(3, 140), Mv(3, 100), Mv(3, 140),
       Mv(3, 120) >>

DancePositions ==
    << <<Mv(1, 100), Mv(2, 100), Mv(3, 100)>>,
       <<Mv(1, 140), Mv(2, 140), Mv(3, 140)>>,
       <<Mv(1, 100), Mv(2, 140), Mv(3, 100)>>,
       <<Mv(1, 140), Mv(2, 100), Mv(3, 140)>> >>

DanceMoves ==
    LET once == DancePositions[1] \o DancePositions[2]
                \o DancePositions[3] \o DancePositions[4]
    IN once \o once

\* the moves simple_wave, simple_nod and simple_dance issue on the
\* connected servos
SimpleMoves(name) ==
    SelectSeq(CASE name = "wave" -> WaveMoves
                [] name = "nod" -> NodMoves
                [] OTHER -> DanceMoves,
              InServos)

\* a failing move raises out of the loop unless it sits in its own
\* try/except: the frame loop and simple_dance guard each move, simple_wave
\* and simple_nod do not
MoveGuarded(kind, name) == kind = "seq" \/ name = "dance"

\* simple_nod ends without set_home_position
GoesHome(kind, name) == kind = "seq" \/ name # "nod"

----------------------------------------------------------------------------
(* Step outputs *)

NoSent == [o \in Obs |-> <<>>]

Ev(op, who, arg, ok) == [op |-> op, who |-> who, arg |-> arg, ok |-> ok]

MoveCmd(sid, angle, ok) == [op |-> "move", sid |-> sid, angle |-> angle, ok |-> ok]
TorqueCmd(op, sid, ok) == [op |-> op, sid |-> sid, angle |-> 0, ok |-> ok]

----------------------------------------------------------------------------
(* RobotController: the threads.  A thread's statements that touch only    *)
(* its own data and the servo bus (a whole frame loop, a whole home sweep) *)
(* are one step; every read and write of connected, is_moving and          *)
(* current_action is a step of its own.                                    *)

IdleTask == [pc |-> "idle", kind |-> "none", action |-> None]

At(t, pc) == tasks[t].pc = pc

Goto(t, pc) == tasks' = [tasks EXCEPT ![t].pc = pc]

\* play_sequence without its is_moving check
PlayAdmitsWhileMoving == connected

\* "if not self.connected or self.is_moving: return False"
PlayAdmits == connected /\ ~is_moving

\* os.path.exists(seq_file)
FileExists(name) == name \in stored

\* what play_sequence(name) returns
PlayReturns(name) == PlayAdmits /\ FileExists(name)

\* The commands a loop over moves issues when the call number f raises
\* (f = 0: none does): a guarded loop goes on, an unguarded one ends there.
Issued(moves, f, guarded) ==
    [k \in 1..(IF f = 0 \/ guarded THEN Len(moves) ELSE f) |->
        MoveCmd(moves[k].sid, moves[k].angle, k # f)]

\* the loop ran to its end
Completed(moves, f, guarded) == f = 0 \/ guarded

\* set_home_position: servo.move(120) for every connected servo, each in
\* its own try/except; nothing when not connected
HomeMoves == [k \in 1..Len(ServoOrder) |-> Mv(ServoOrder[k], CENTER_ANGLE)]
HomeSweep(f) == IF connected THEN Issued(HomeMoves, f, TRUE) ELSE <<>>

\* a raise that no except/finally handles: the thread ends as it is
RaisedUnhandled == "idle"

\* "except Exception ... finally": a raise inside the try of a motion takes
\* the thread to its release
Raised == "fin1"

\* the thread run_action of trigger_robot_action: play_sequence(action),
\* and the simple motion of a built-in action when that returns False.
\* play_sequence starts the playback thread and returns; run_action ends
\* there, so the playback thread takes over the slot.
RunAction(t) ==
    /\ At(t, "play")
    /\ LET name == tasks[t].action
           ret == PlayReturns(name)
       IN /\ tasks' = [tasks EXCEPT ![t] =
                IF ret THEN [pc |-> "claim", kind |-> "seq", action |-> name]
                ELSE IF name \in BuiltIn
                     THEN [pc |-> "simple", kind |-> "simple", action |-> name]
                     ELSE IdleTask]
          /\ ev' = Ev("play_sequence", t, name, ret)
    /\ sent' = NoSent /\ bus' = <<>>
    /\ UNCHANGED <<engine, config, hist, estop, clients, conn, stats, serving>>

\* simple_wave / simple_nod / simple_dance: the entry check
SimpleCheck(t) ==
    /\ At(t, "simple")
    /\ LET admitted == connected /\ ~is_moving
       IN /\ tasks' = [tasks EXCEPT ![t] =
                IF admitted THEN [@ EXCEPT !.pc = "claim"] ELSE IdleTask]
          /\ ev' = Ev("simple_check", t, tasks[t].action, admitted)
    /\ sent' = NoSent /\ bus' = <<>>
    /\ UNCHANGED <<engine, config, hist, estop, clients, conn, stats, serving>>

\* self.is_moving = True
Claim(t) ==
    /\ At(t, "claim")
    /\ is_moving' = TRUE
    /\ hist' = [hist EXCEPT !.claimed = IF @ < quota THEN @ + 1 ELSE @]
    /\ Goto(t, "setact")
    /\ ev' = Ev("claim", t, tasks[t].action, TRUE)
    /\ sent' = NoSent /\ bus' = <<>>
    /\ UNCHANGED <<connected, current_action, config, estop, clients, conn,
                   stats, serving>>

\* self.current_action = name
SetAction(t) ==
    /\ At(t, "setact")
    /\ current_action' = tasks[t].action
    /\ Goto(t, "body")
    /\ ev' = Ev("set_action", t, tasks[t].action, TRUE)
    /\ sent' = NoSent /\ bus' = <<>>
    /\ UNCHANGED <<connected, is_moving, config, hist, estop, clients, conn, stats,
                   serving>>

\* _play_sequence_thread from the csv load to the end of the frame loop.
\* loaded = FALSE: open() or a record's int()/float() raises, which takes
\* the thread to its except/finally.  f: the move that raises (0: none).
Play(t, loaded, f) ==
    /\ At(t, "body") /\ tasks[t].kind = "seq"
    /\ f \in 0..Len(PlayMoves)
    /\ loaded \/ f = 0
    /\ bus' = IF loaded THEN Issued(PlayMoves, f, TRUE) ELSE <<>>
    /\ Goto(t, IF loaded THEN "home" ELSE Raised)
    /\ ev' = Ev("play", t, tasks[t].action, loaded)
    /\ sent' = NoSent
    /\ UNCHANGED <<engine, config, hist, estop, clients, conn, stats, serving>>

\* the moves of simple_wave, simple_nod or simple_dance
Motion(t, f) ==
    /\ At(t, "body") /\ tasks[t].kind = "simple"
    /\ LET name == tasks[t].action
           moves == SimpleMoves(name)
           done == Completed(moves, f, MoveGuarded("simple", name))
       IN /\ f \in 0..Len(moves)
          /\ bus' = Issued(moves, f, MoveGuarded("simple", name))
          /\ Goto(t, IF ~done THEN Raised
                      ELSE IF GoesHome("simple", name) THEN "home" ELSE "fin1")
          /\ ev' = Ev("motion", t, name, done)
    /\ sent' = NoSent
    /\ UNCHANGED <<engine, config, hist, estop, clients, conn, stats, serving>>

\* set_home_position at the end of a motion
Home(t, f) ==
    /\ At(t, "home")
    /\ f \in 0..Len(ServoOrder)
    /\ connected \/ f = 0
    /\ bus' = HomeSweep(f)
    /\ Goto(t, "fin1")
    /\ ev' = Ev("home", t, tasks[t].action, connected)
    /\ sent' = NoSent
    /\ UNCHANGED <<engine, config, hist, estop, clients, conn, stats, serving>>

\* finally: self.is_moving = False
Release(t) ==
    /\ At(t, "fin1")
    /\ is_moving' = FALSE
    /\ Goto(t, "fin2")
    /\ ev' = Ev("release", t, tasks[t].action, TRUE)
    /\ sent' = NoSent /\ bus' = <<>>
    /\ UNCHANGED <<connected, current_action, config, hist, estop, clients, conn,
                   stats, serving>>

\* finally: self.current_action = None; the thread ends
ClearAction(t) ==
    /\ At(t, "fin2")
    /\ current_action' = None
    /\ tasks' = [tasks EXCEPT ![t] = IdleTask]
    /\ ev' = Ev("clear_action", t, tasks[t].action, TRUE)
    /\ sent' = NoSent /\ bus' = <<>>
    /\ UNCHANGED <<connected, is_moving, config, hist, estop, clients, conn, stats,
                   serving>>

TaskStep(t) ==
    \/ RunAction(t)
    \/ SimpleCheck(t)
    \/ Claim(t)
    \/ SetAction(t)
    \/ \E loaded \in BOOLEAN, f \in 0..Len(CsvRows) : Play(t, loaded, f)
    \/ \E f \in 0..Len(DanceMoves) : Motion(t, f)
    \/ \E f \in 0..MaxServo : Home(t, f)
    \/ Release(t)
    \/ ClearAction(t)

----------------------------------------------------------------------------
(* SmileRobotServer: messages and payloads *)

\* An inbound message: json is whether json.loads accepts it, command and
\* action are data.get('command') and data.get('action') ("absent" when the
\* key is missing), score_ok is whether smile_score formats as a number.
Message(json, command, action, score_ok) ==
    [json |-> json, command |-> command, action |-> action, score_ok |-> score_ok]

\* data.get('action', 'wave')
ActionOf(m) == IF m.action = "absent" THEN "wave" ELSE m.action

Payload(kind, status) ==
    [kind |-> kind, status |-> status, robot_connected |-> FALSE,
     is_moving |-> FALSE, current_action |-> None, total_smiles |-> 0,
     total_movements |-> 0, servos_connected |-> 0]

\* {'message': ..., 'status': status}
ResultMsg(status) == Payload("result", status)

\* the smile path's confirmation carries total_movements
MovingMsg(n) == [Payload("result", "Moving") EXCEPT !.total_movements = n]

\* {'error': text}
ErrorMsg(text) == Payload("error", text)

\* send_status: the snapshot
StatusMsg ==
    [kind |-> "status", status |-> "Status update", robot_connected |-> connected,
     is_moving |-> is_moving, current_action |-> current_action,
     total_smiles |-> total_smiles, total_movements |-> total_movements,
     servos_connected |-> Cardinality(servos)]

\* a send that goes to every member of clients
SendToClients(o, msgs) == [p \in Obs |-> IF p \in clients THEN msgs ELSE <<>>]

\* connection.send(msg) to one connection
SendTo(o, msgs) == [p \in Obs |-> IF p = o THEN msgs ELSE <<>>]

\* a broadcast that the first failing send ends
BroadcastUntilFailure(msg) ==
    [p \in Obs |->
        IF p \in clients /\ (\A q \in clients : q < p => conn[q] = "open")
        THEN <<msg>> ELSE <<>>]

\* broadcast: one client.send(message) for every member of self.clients
\* (gather(..., return_exceptions=True) keeps a failing send to itself)
Broadcast(msg) == [p \in Obs |-> IF p \in clients THEN <<msg>> ELSE <<>>]

----------------------------------------------------------------------------
(* SmileRobotServer: the handlers (one runs at a time on the event loop) *)

Free == {t \in slots : tasks[t].pc = "idle"}
FreeTask == CHOOSE t \in Free : \A u \in Free : t <= u

\* threading.Thread(target=run_action).start()
Spawned(action) ==
    [tasks EXCEPT ![FreeTask] = [pc |-> "play", kind |-> "run", action |-> action]]

\* trigger_robot_action without its connected check
TriggerAlwaysTrue == TRUE

\* trigger_robot_action checking is_moving in place of connected
TriggerWhenIdle == ~is_moving

\* what trigger_robot_action returns: False only when not connected
TriggerReturns == connected

\* the event loop is free to run a handler
LoopFree == serving /\ estop.pc = "idle"

Receives(o, m) ==
    /\ LoopFree /\ conn[o] = "open"
    /\ m.action \in names \cup {"absent", "stop"}

\* handle_client up to the first receive: clients.add, then send_status;
\* when that send raises (the peer is gone already) the handler ends before
\* its try/finally
Accept(o, ok) ==
    /\ LoopFree /\ o \in peers /\ conn[o] = "idle"
    /\ clients' = clients \cup {o}
    /\ conn' = [conn EXCEPT ![o] = IF ok THEN "open" ELSE "leaked"]
    /\ sent' = SendTo(o, <<StatusMsg>>)
    /\ ev' = Ev("accept", o, "", ok)
    /\ bus' = <<>>
    /\ UNCHANGED <<engine, config, hist, tasks, estop, stats, serving>>

\* the peer closes its connection
PeerClose(o) ==
    /\ serving /\ conn[o] = "open"
    /\ conn' = [conn EXCEPT ![o] = "closing"]
    /\ ev' = Ev("peer_close", o, "", TRUE)
    /\ sent' = NoSent /\ bus' = <<>>
    /\ UNCHANGED <<engine, config, hist, tasks, estop, clients, stats, serving>>

\* handle_client: the receive loop ends (ConnectionClosed), finally removes
HandlerEnd(o) ==
    /\ LoopFree /\ conn[o] = "closing"
    /\ clients' = clients \ {o}
    /\ conn' = [conn EXCEPT ![o] = "idle"]
    /\ ev' = Ev("handler_end", o, "", TRUE)
    /\ sent' = NoSent /\ bus' = <<>>
    /\ UNCHANGED <<engine, config, hist, tasks, estop, stats, serving>>

\* process_message: json.loads raises JSONDecodeError
InvalidJson(o, m) ==
    /\ Receives(o, m) /\ ~m.json
    /\ sent' = SendTo(o, <<ErrorMsg("Invalid JSON")>>)
    /\ ev' = Ev("invalid_json", o, "", FALSE)
    /\ bus' = <<>>
    /\ UNCHANGED <<engine, config, hist, tasks, estop, clients, conn, stats, serving>>

\* process_message: the else branch
UnknownCommand(o, m) ==
    /\ Receives(o, m) /\ m.json
    /\ m.command \notin {"smile_detected", "test_action", "get_status"}
    /\ sent' = SendTo(o, <<ErrorMsg("Unknown command")>>)
    /\ ev' = Ev("unknown_command", o, "", FALSE)
    /\ bus' = <<>>
    /\ UNCHANGED <<engine, config, hist, tasks, estop, clients, conn, stats, serving>>

\* process_message: get_status
GetStatus(o, m) ==
    /\ Receives(o, m) /\ m.json /\ m.command = "get_status"
    /\ sent' = SendTo(o, <<StatusMsg>>)
    /\ ev' = Ev("get_status", o, "", TRUE)
    /\ bus' = <<>>
    /\ UNCHANGED <<engine, config, hist, tasks, estop, clients, conn, stats, serving>>

\* handle_smile.  The print of f"{smile_score:.1f}" raises for a score that
\* is no number: process_message's except then reports to the sender.
HandleSmile(o, m) ==
    /\ Receives(o, m) /\ m.json /\ m.command = "smile_detected"
    /\ total_smiles < quota
    /\ LET action == ActionOf(m)
           attempt == m.score_ok /\ ~is_moving
           success == attempt /\ TriggerReturns
       IN /\ success => Free # {}
          /\ total_smiles' = total_smiles + 1
          /\ total_movements' = IF success THEN total_movements + 1 ELSE total_movements
          /\ tasks' = IF success THEN Spawned(action) ELSE tasks
          /\ sent' = IF ~m.score_ok THEN SendTo(o, <<ErrorMsg("exception")>>)
                     ELSE IF success THEN Broadcast(MovingMsg(total_movements + 1))
                     ELSE Broadcast(ResultMsg("Busy"))
          /\ ev' = Ev("smile_detected", o, action, m.score_ok)
    /\ bus' = <<>>
    /\ UNCHANGED <<engine, config, hist, estop, clients, conn, serving>>

\* handle_test_action with an action other than 'stop'
HandleTestAction(o, m) ==
    /\ Receives(o, m) /\ m.json /\ m.command = "test_action"
    /\ ActionOf(m) # "stop"
    /\ LET success == TriggerReturns
       IN /\ success => Free # {}
          /\ tasks' = IF success THEN Spawned(ActionOf(m)) ELSE tasks
          /\ sent' = SendTo(o, <<ResultMsg(IF success THEN "Moving" ELSE "Error")>>)
          /\ ev' = Ev("test_action", o, ActionOf(m), success)
    /\ bus' = <<>>
    /\ UNCHANGED <<engine, config, hist, estop, clients, conn, stats, serving>>

----------------------------------------------------------------------------
(* emergency_stop: called on the event loop, which it blocks until it      *)
(* returns; the threads keep running meanwhile                             *)

IdleStop == [pc |-> "idle", sender |-> 0]

\* a torque loop that a raising call ends
TorqueSweepAborting(op, f) ==
    [k \in 1..(IF f = 0 THEN Len(ServoOrder) ELSE f) |->
        TorqueCmd(op, ServoOrder[k], k # f)]

\* One torque loop of emergency_stop or disconnect: op on every connected
\* servo, each call in its own try/except, so the call number f raising
\* (f = 0: none does) does not end the loop.
TorqueSweep(op, f) ==
    [k \in 1..Len(ServoOrder) |-> TorqueCmd(op, ServoOrder[k], k # f)]

\* handle_test_action with action 'stop': emergency_stop sets is_moving
EStopBegin(o, m) ==
    /\ Receives(o, m) /\ m.json /\ m.command = "test_action"
    /\ ActionOf(m) = "stop"
    /\ is_moving' = FALSE
    /\ hist' = [hist EXCEPT !.stopped = TRUE]
    /\ estop' = [pc |-> "disable", sender |-> o]
    /\ ev' = Ev("stop", o, "stop", TRUE)
    /\ sent' = NoSent /\ bus' = <<>>
    /\ UNCHANGED <<connected, current_action, config, tasks, clients,
                   conn, stats, serving>>

\* "for servo in self.servos.values(): servo.disable_torque()"
EStopDisable(f) ==
    /\ estop.pc = "disable"
    /\ f \in 0..Len(ServoOrder)
    /\ estop' = [estop EXCEPT !.pc = "enable"]
    /\ bus' = TorqueSweep("disable_torque", f)
    /\ ev' = Ev("disable_torque", estop.sender, "stop", f = 0)
    /\ sent' = NoSent
    /\ UNCHANGED <<engine, config, hist, tasks, clients, conn, stats, serving>>

\* time.sleep(1), then "for servo in ...: servo.enable_torque()"
EStopEnable(f) ==
    /\ estop.pc = "enable"
    /\ f \in 0..Len(ServoOrder)
    /\ estop' = [estop EXCEPT !.pc = "reply"]
    /\ bus' = TorqueSweep("enable_torque", f)
    /\ ev' = Ev("enable_torque", estop.sender, "stop", f = 0)
    /\ sent' = NoSent
    /\ UNCHANGED <<engine, config, hist, tasks, clients, conn, stats, serving>>

\* handle_test_action: connection.send of the 'Stopped' response.  On a
\* connection the peer closed meanwhile the send raises, the send of
\* process_message's except raises again, and handle_client ends.
EStopReply ==
    /\ estop.pc = "reply"
    /\ LET o == estop.sender
       IN IF conn[o] = "open"
          THEN /\ sent' = SendTo(o, <<ResultMsg("Stopped")>>)
               /\ UNCHANGED <<clients, conn>>
          ELSE /\ sent' = SendTo(o, <<ResultMsg("Stopped"), ErrorMsg("exception")>>)
               /\ clients' = clients \ {o}
               /\ conn' = [conn EXCEPT ![o] = "idle"]
    /\ estop' = IdleStop
    /\ ev' = Ev("stop_reply", estop.sender, "stop", conn[estop.sender] = "open")
    /\ bus' = <<>>
    /\ UNCHANGED <<engine, config, hist, tasks, stats, serving>>

\* shutdown: the server closes (every running connection handler ends and
\* removes its connection), then cleanup() calls robot.disconnect()
Cleanup(f) ==
    /\ LoopFree
    /\ f \in 0..Len(ServoOrder)
    /\ serving' = FALSE
    /\ connected' = FALSE
    /\ clients' = {o \in clients : conn[o] = "leaked"}
    /\ conn' = [o \in Obs |-> IF conn[o] = "leaked" THEN "leaked" ELSE "idle"]
    /\ bus' = TorqueSweep("disable_torque", f)
    /\ ev' = Ev("cleanup", 0, "", f = 0)
    /\ sent' = NoSent
    /\ UNCHANGED <<is_moving, current_action, config, hist, tasks, estop, stats>>

----------------------------------------------------------------------------
(* The system *)

\* the action names the observers send
Actions == {"wave", "custom"}

Messages ==
    {Message(TRUE, "smile_detected", a, s) :
        a \in Actions \cup BuiltIn \cup {"absent"}, s \in BOOLEAN}
    \cup {Message(TRUE, "test_action", a, TRUE) :
        a \in Actions \cup BuiltIn \cup {"absent", "stop"}}
    \cup {Message(TRUE, "get_status", "absent", TRUE),
          Message(TRUE, "reset", "absent", TRUE),
          Message(FALSE, "absent", "absent", TRUE)}

\* After construction and start_server: connect() brought either every
\* servo or none under control (none when the bus failed to initialize);
\* the sequence files either all exist or none does.  sl are the thread
\* slots in use, pr the peers that connect, q the smiles handled, nm the
\* action names the peers send.
InitWith(sl, pr, q, nm) ==
    /\ servos \in {{}, ServoIds}
    /\ connected = (servos # {})
    /\ is_moving = FALSE
    /\ current_action = None
    /\ stored \in {{}, nm}
    /\ names = nm
    /\ hist = [stopped |-> FALSE, claimed |-> 0]
    /\ slots = sl
    /\ peers = pr
    /\ quota = q
    /\ tasks = [t \in Tasks |-> IdleTask]
    /\ estop = IdleStop
    /\ clients = {}
    /\ conn = [o \in Obs |-> "idle"]
    /\ total_smiles = 0
    /\ total_movements = 0
    /\ serving = TRUE
    /\ ev = Ev("init", 0, "", TRUE)
    /\ sent = NoSent
    /\ bus = <<>>

\* every thread slot, one peer
Init == InitWith(Tasks, {1}, 1, Actions)

\* one thread slot, every peer
InitRouter == InitWith({1}, Obs, MaxSmiles, Actions)

\* one thread slot, one peer
InitFair == InitWith({1}, {1}, 1, Actions)

\* one thread slot, one peer, the procedural motions
InitMotion == InitWith({1}, {1}, 1, BuiltIn)

Next ==
    \/ \E t \in Tasks : TaskStep(t)
    \/ \E o \in Obs, ok \in BOOLEAN : Accept(o, ok)
    \/ \E o \in Obs : PeerClose(o)
    \/ \E o \in Obs : HandlerEnd(o)
    \/ \E o \in Obs, m \in Messages : InvalidJson(o, m)
    \/ \E o \in Obs, m \in Messages : UnknownCommand(o, m)
    \/ \E o \in Obs, m \in Messages : GetStatus(o, m)
    \/ \E o \in Obs, m \in Messages : HandleSmile(o, m)
    \/ \E o \in Obs, m \in Messages : HandleTestAction(o, m)
    \/ \E o \in Obs, m \in Messages : EStopBegin(o, m)
    \/ \E f \in 0..MaxServo : EStopDisable(f)
    \/ \E f \in 0..MaxServo : EStopEnable(f)
    \/ EStopReply
    \/ \E f \in 0..MaxServo : Cleanup(f)

Spec == Init /\ [][Next]_vars

SpecRouter == InitRouter /\ [][Next]_vars

SpecMotion == InitMotion /\ [][Next]_vars

\* the threads are scheduled fairly and every actuator call returns or raises
FairSpec == InitFair /\ [][Next]_vars /\ \A t \in Tasks : WF_vars(TaskStep(t))

----------------------------------------------------------------------------
(* Properties *)

\* a motion between its busy claim (is_moving = True done) and its release
\* (is_moving = False not yet done)
Holding(t) == tasks[t].pc \in {"setact", "body", "home", "fin1"}

\* a thread between the two assignments of its claim or of its release
MidAssignment(t) == tasks[t].pc \in {"setact", "fin2"}

\* a playback thread exists in slot t
Playback(t) == tasks[t].kind = "seq"

\* C1: at most one motion execution unit (playback thread or simple motion)
\* is between its busy claim and its release, in every reachable state.
C1_AtMostOneMotion == Cardinality({t \in Tasks : Holding(t)}) <= 1

\* C2: is_moving is true if and only if current_action is not None, read in
\* the states where no thread is between the two assignments of its claim
\* or of its release (in between the equivalence fails by construction).
C2_BusyIffCurrentAction ==
    (\A t \in Tasks : ~MidAssignment(t)) => (is_moving <=> current_action # None)

\* C3: a trigger (smile_detected, or test_action with an action other than
\* "stop") handled while is_moving is true sends no "Moving" result and
\* leaves current_action unchanged.
C3_BusyTriggerRejected ==
    [][(ev'.op \in {"smile_detected", "test_action"} /\ is_moving)
        => /\ \A o \in Obs : "Moving" \notin {sent'[o][k].status : k \in 1..Len(sent'[o])}
           /\ current_action' = current_action]_vars

\* C4: play_sequence called when not connected or while is_moving returns
\* False and changes nothing: engine state unchanged, no playback thread
\* started, no actuator command issued.
C4_RejectedPlayNoEffect ==
    [][(ev'.op = "play_sequence" /\ (~connected \/ is_moving))
        => /\ ~ev'.ok
           /\ UNCHANGED <<connected, is_moving, current_action>>
           /\ \A t \in Tasks : Playback(t)' => Playback(t)
           /\ bus' = <<>>]_vars

\* C4 witness: play_sequence has just returned False for a stored sequence
\* on a connected engine that is moving.
C4_Witness ==
    /\ ev.op = "play_sequence" /\ ~ev.ok
    /\ ev.arg \in stored /\ connected /\ is_moving

\* C5: when play_sequence returns True, is_moving is already true and
\* current_action is the sequence's name.
C5_ClaimedOnReturn ==
    [][(ev'.op = "play_sequence" /\ ev'.ok)
        => (is_moving' /\ current_action' = ev'.arg)]_vars

\* C6: every motion that has claimed busy reaches the end of its thread,
\* on the normal path and on an internal error, and on the way its release
\* sets is_moving = False and then current_action = None.
C6_EventuallyReleases ==
    /\ \A t \in Tasks : Holding(t) ~> (tasks[t].pc = "idle")
    /\ [][\A t \in Tasks :
            /\ (Holding(t) /\ ~Holding(t)') => (~is_moving' /\ tasks'[t].pc = "fin2")
            /\ (tasks[t].pc = "fin2" /\ tasks'[t].pc # "fin2")
                => (current_action' = None /\ tasks'[t].pc = "idle")]_vars

\* C6 witness: a playback thread has just run the first assignment of its
\* finally block: is_moving is False, current_action is still to be cleared.
C6_Witness ==
    \E t \in Tasks : /\ tasks[t].pc = "fin2" /\ Playback(t)
                     /\ ev.op = "release" /\ ev.who = t /\ ~is_moving

\* C7: test_action "stop" during a playback: emergency_stop first sets
\* is_moving = False (no torque command yet), then calls disable_torque on
\* every connected servo, and only after that sweep enable_torque on every
\* connected servo, whichever call raises; last, the sender and no other
\* connection is sent status "Stopped".
C7_StopSequence ==
    [][/\ ev'.op = "stop" => (~is_moving' /\ bus' = <<>> /\ estop'.pc = "disable")
       /\ ev'.op = "disable_torque"
            => /\ estop.pc = "disable"
               /\ Len(bus') = Len(ServoOrder)
               /\ \A k \in 1..Len(bus') :
                    bus'[k].op = "disable_torque" /\ bus'[k].sid = ServoOrder[k]
       /\ (estop'.pc = "enable" /\ estop.pc # "enable") => ev'.op = "disable_torque"
       /\ ev'.op = "enable_torque"
            => /\ estop.pc = "enable"
               /\ Len(bus') = Len(ServoOrder)
               /\ \A k \in 1..Len(bus') :
                    bus'[k].op = "enable_torque" /\ bus'[k].sid = ServoOrder[k]
       /\ (estop'.pc = "reply" /\ estop.pc # "reply") => ev'.op = "enable_torque"
       /\ ev'.op = "stop_reply"
            => /\ estop.pc = "reply"
               /\ Head(sent'[estop.sender]) = ResultMsg("Stopped")
               /\ conn[estop.sender] = "open"
                    => sent'[estop.sender] = <<ResultMsg("Stopped")>>
       /\ \A p \in Obs :
            "Stopped" \in {sent'[p][k].status : k \in 1..Len(sent'[p])}
                => (ev'.op = "stop_reply" /\ p = estop.sender)]_vars

\* C7 witness: the "Stopped" reply has gone to the sender alone, on an
\* engine with servos, while the playback the stop interrupted is still in
\* its frame loop or home sweep.
C7_Witness ==
    /\ ev.op = "stop_reply" /\ ev.ok /\ servos # {}
    /\ sent[ev.who] = <<ResultMsg("Stopped")>>
    /\ Cardinality(clients) >= 2
    /\ \E t \in Tasks : Playback(t) /\ tasks[t].pc \in {"body", "home"}

\* the outcome C8 names for a handled smile: one and the same "Moving" or
\* "Busy" result for every member of clients, nothing for anyone else
SmileResultBroadcast ==
    \E st \in {"Moving", "Busy"} :
        \A p \in Obs :
            IF p \in clients
            THEN /\ Len(sent'[p]) = 1
                 /\ sent'[p][1].kind = "result" /\ sent'[p][1].status = st
            ELSE sent'[p] = <<>>

\* C8 as stated: every handled smile_detected message sends exactly one
\* result ("Moving" or "Busy") to every member of clients.
C8_EverySmileBroadcast ==
    [][ev'.op = "smile_detected" => SmileResultBroadcast]_vars

\* C9: total_smiles grows by one with every smile_detected message;
\* total_movements grows by at most one, and only with a smile_detected
\* handled while the engine was not moving and the trigger succeeded
\* (engine connected); no other step changes a counter; and
\* total_movements <= total_smiles in every reachable state.
C9_StatsCounters ==
    /\ [](total_movements <= total_smiles)
    /\ [][/\ ev'.op = "smile_detected"
            => /\ total_smiles' = total_smiles + 1
               /\ total_movements' \in {total_movements, total_movements + 1}
               /\ total_movements' = total_movements + 1
                    => (~is_moving /\ connected)
          /\ ev'.op # "smile_detected" => UNCHANGED <<total_smiles, total_movements>>]_vars

\* C9 witness: a second smile, handled while the engine was moving, counted
\* as an event and not as a movement.
C9_Witness ==
    /\ ev.op = "smile_detected" /\ is_moving
    /\ total_smiles = 2 /\ total_movements = 1

\* C10: on a connected, idle engine a trigger naming an action other than
\* wave, nod or dance that has no stored sequence fails: test_action
\* replies "Error" and the smile path leaves total_movements alone.
C10_MissingProgramFails ==
    [][(/\ ev'.op \in {"test_action", "smile_detected"}
        /\ connected /\ ~is_moving
        /\ ev'.arg \notin BuiltIn /\ ev'.arg \notin stored)
        => /\ ev'.op = "test_action" => sent'[ev'.who] = <<ResultMsg("Error")>>
           /\ ev'.op = "smile_detected" => total_movements' = total_movements]_vars

\* C11: a procedural motion (wave, nod, dance) runs only for a name whose
\* stored sequence does not exist: no thread that passed the entry check of
\* simple_wave, simple_nod or simple_dance carries a name in stored.
C11_FallbackOnlyWhenNotFound ==
    \A t \in Tasks :
        (tasks[t].kind = "simple" /\ tasks[t].pc \notin {"simple", "idle"})
            => tasks[t].action \notin stored

\* C12: an undecodable message and a message with an unrecognized command
\* each send exactly one {"error": ...} payload to the sender and nothing
\* to anyone else; connected, is_moving, current_action and the counters
\* are unchanged, no thread starts, no actuator command is issued, and the
\* sender stays in clients with its connection served.
C12_ProtocolErrorToSender ==
    [][ev'.op \in {"invalid_json", "unknown_command"}
        => /\ Len(sent'[ev'.who]) = 1
           /\ sent'[ev'.who][1].kind = "error"
           /\ \A p \in Obs \ {ev'.who} : sent'[p] = <<>>
           /\ UNCHANGED <<connected, is_moving, current_action,
                          total_smiles, total_movements, tasks, clients>>
           /\ bus' = <<>>
           /\ ev'.who \in clients' /\ conn'[ev'.who] = "open"]_vars

\* C12 witness: an unknown command was answered with an error while a
\* second client is connected and a motion holds the engine.
C12_Witness ==
    /\ ev.op = "unknown_command" /\ clients = Obs
    /\ sent[ev.who] = <<ErrorMsg("Unknown command")>>
    /\ \A p \in Obs \ {ev.who} : conn[p] = "open" /\ sent[p] = <<>>
    /\ is_moving /\ current_action # None

\* C13: one failing move never ends the surrounding operation: a frame
\* loop issues every move of the sequence, a procedural motion issues every
\* move of its program and runs to its end, a home sweep commands every
\* connected servo, whichever move raises.
C13_FailingMoveSkipsNothing ==
    [][/\ (ev'.op = "play" /\ ev'.ok) => Len(bus') = Len(PlayMoves)
       /\ ev'.op = "motion"
            => (ev'.ok /\ Len(bus') = Len(SimpleMoves(ev'.arg)))
       /\ (ev'.op = "home" /\ connected) => Len(bus') = Len(ServoOrder)]_vars

\* C14: a trigger on an engine that is not connected fails at once, for
\* every action name: no thread is started, no actuator command is issued,
\* connected, is_moving and current_action are unchanged; the smile path
\* (numeric score, so that the trigger is reached) broadcasts "Busy" and
\* leaves total_movements alone, the test_action path answers "Error".
C14_DisconnectedTriggerFails ==
    [][(/\ ev'.op \in {"smile_detected", "test_action"}
        /\ ~connected
        /\ ev'.op = "smile_detected" => ev'.ok)
        => /\ tasks' = tasks /\ bus' = <<>>
           /\ UNCHANGED <<connected, is_moving, current_action>>
           /\ ev'.op = "smile_detected"
                => /\ total_movements' = total_movements
                   /\ \A p \in clients : sent'[p] = <<ResultMsg("Busy")>>
           /\ ev'.op = "test_action"
                => sent'[ev'.who] = <<ResultMsg("Error")>>]_vars

\* C14 witness: on an engine that is not connected a smile naming "custom"
\* has been answered "Busy" to both clients, with no movement counted.
C14_Witness ==
    /\ ev.op = "smile_detected" /\ ev.ok /\ ev.arg = "custom"
    /\ ~connected /\ clients = Obs
    /\ \A p \in Obs : sent[p] = <<ResultMsg("Busy")>>
    /\ total_smiles = 1 /\ total_movements = 0
    /\ \A t \in Tasks : tasks[t].pc = "idle"

\* the record of the sequence file a playback command comes from: its
\* servo, and its angle as stored for a servo outside REVERSED, 240 minus
\* the stored angle for a servo in REVERSED
RowOf(cmd) ==
    {i \in 1..Len(CsvRows) :
        /\ CsvRows[i].servo_id = cmd.sid
        /\ cmd.angle = IF cmd.sid \in {3, 4, 7, 8, 1, 6}
                       THEN 240 - CsvRows[i].angle ELSE CsvRows[i].angle}

\* C15: a playback issues its moves in ascending frame order whatever the
\* order of the records and the gaps between frame numbers: every command
\* is a move of exactly one record (angle as stored, or 240 - angle once for
\* a reversed servo), every record of a connected servo is played, no
\* command of a later frame precedes one of an earlier frame; and the home
\* sweep (every connected servo to 120) follows the frame loop.
C15_FramesAscending ==
    [][/\ (ev'.op = "play" /\ ev'.ok)
            => /\ \A k \in 1..Len(bus') :
                    bus'[k].op = "move" /\ Cardinality(RowOf(bus'[k])) = 1
               /\ \A i \in 1..Len(CsvRows) :
                    CsvRows[i].servo_id \in servos
                        => Cardinality({k \in 1..Len(bus') : i \in RowOf(bus'[k])}) = 1
               /\ \A j, k \in 1..Len(bus') :
                    j < k => \A a \in RowOf(bus'[j]), b \in RowOf(bus'[k]) :
                                CsvRows[a].frame <= CsvRows[b].frame
       /\ \A t \in Tasks :
            (Playback(t) /\ tasks'[t].pc = "home" /\ tasks[t].pc # "home")
                => (ev'.op = "play" /\ ev'.who = t /\ ev'.ok)
       /\ (ev'.op = "home" /\ connected)
            => \A k \in 1..Len(bus') : bus'[k].op = "move" /\ bus'[k].angle = 120]_vars

\* C15 witness: a playback on an engine with both servos has just issued
\* its three moves, the record listed first in the file (frame 5) last.
C15_Witness ==
    /\ ev.op = "play" /\ ev.ok
    /\ Len(bus) = Len(CsvRows)
    /\ RowOf(bus[Len(bus)]) = {1}

\* C16: a procedural motion (wave, nod, dance) that claimed is_moving and
\* ran to its end with no failing actuator call reaches its release through
\* a home sweep that commands every connected servo to 120.
C16_ProceduralEndsAtHome ==
    [][\A t \in Tasks :
        (/\ tasks[t].kind = "simple"
         /\ tasks[t].pc # "fin1" /\ tasks'[t].pc = "fin1"
         /\ connected /\ ev'.ok
         /\ \A k \in 1..Len(bus') : bus'[k].ok)
        => /\ ev'.op = "home"
           /\ \A sid \in servos :
                \E k \in 1..Len(bus') : bus'[k].sid = sid /\ bus'[k].angle = 120]_vars

C18_ClientsHaveHandlers ==
    \A o \in clients : conn[o] \in {"open", "closing"}

\* C19: as long as emergency_stop has not been called, is_moving is true
\* whenever some motion is between its claim and its release, so that a
\* status snapshot reports it and play_sequence admits no new motion.
C19_BusyReflectsActivity ==
    ~hist.stopped => \A t \in Tasks : Holding(t) => is_moving

\* C20: total_movements never exceeds the number of motions (playbacks and
\* procedural motions) that have claimed is_moving so far, read at the
\* states where no started thread is still on its way to its claim (a
\* movement is counted before its thread runs).
C20_MovementsAreMotions ==
    (\A t \in Tasks : tasks[t].pc \notin {"play", "simple", "claim"})
        => total_movements <= hist.claimed

====
